---- MODULE Spec2Model ----
(***************************************************************************)
(* Model of stock_cycle_analysis.py: the /analyze and /price-series        *)
(* handlers, the date arithmetic they use (datetime.strptime / strftime    *)
(* and dateutil.relativedelta) and the price history provider they call.   *)
(*                                                                         *)
(* Text is a sequence of one-character strings, a date is a record         *)
(* [y, m, d], a float that the code computes from prices by + - * / is an  *)
(* exact rational [num, den] with den > 0 in lowest terms.  The provider   *)
(* (yfinance) is a black box: every fetch returns any close column of      *)
(* length 0..MaxSeriesLen over Prices.                                     *)
(*                                                                         *)
(* Values that need a square root or a fractional power stay symbolic:     *)
(* std_dev is kept as its square, sharpe as numerator and squared          *)
(* denominator, cagr as base and exponent; growth and the average are      *)
(* rounded as the code rounds them, in hundredths.  The dates column of    *)
(* the provider passes through price_series untouched and is left out.     *)
(***************************************************************************)
EXTENDS Integers, Sequences, FiniteSets, TLC

\* ------------------------------------------------------------------ bounds
MaxCycles == 3
MaxDuration == 2
MaxSeriesLen == 2

\* ------------------------------------------------------------------ inputs
None == <<>>

Some(x) == <<x>>

Symbols == { <<"t","c","s",".","n","s">> }

Units == {"days", "months", "years", "weeks"}

AssetTypes == {"stock", "mf"}

Prices == {-1, 0, 2}

RiskFreeRates == {0, 1}

DurationValues == -1 .. MaxDuration

CycleCounts == -1 .. MaxCycles

EndDates ==
  { <<"2","0","2","4","-","0","3","-","3","1">>,
    <<"2","0","2","4","-","1","-","1">>,
    <<"2","0","2","3","-","0","2","-","3","0">>,
    <<"0","3","/","3","1","/","2","0","2","4">> }

\* ------------------------------------------------------------------ text
LowerChars == <<"c","n","s","t">>

UpperChars == <<"C","N","S","T">>

\* str.upper()
upper(s) ==
  [k \in 1..Len(s) |->
     IF \E j \in 1..Len(LowerChars) : LowerChars[j] = s[k]
     THEN UpperChars[CHOOSE j \in 1..Len(LowerChars) : LowerChars[j] = s[k]]
     ELSE s[k]]

DigitChars == <<"0","1","2","3","4","5","6","7","8","9">>

IsDigit(c) == \E k \in 1..10 : DigitChars[k] = c

DigitValue(c) == (CHOOSE k \in 1..10 : DigitChars[k] = c) - 1

RECURSIVE NumberOf(_)
NumberOf(s) ==
  IF s = <<>> THEN 0
  ELSE 10 * NumberOf(SubSeq(s, 1, Len(s) - 1)) + DigitValue(s[Len(s)])

AllDigits(s) == \A k \in 1..Len(s) : IsDigit(s[k])

Pad2(n) == <<DigitChars[((n \div 10) % 10) + 1], DigitChars[(n % 10) + 1]>>

Pad4(n) == Pad2(n \div 100) \o Pad2(n % 100)

\* ------------------------------------------------------------------ calendar
IsLeap(y) == (y % 4 = 0) /\ ((y % 100 # 0) \/ (y % 400 = 0))

DaysInMonth(y, m) ==
  IF m = 2 THEN (IF IsLeap(y) THEN 29 ELSE 28)
  ELSE IF m \in {4, 6, 9, 11} THEN 30 ELSE 31

Date(y, m, d) == [y |-> y, m |-> m, d |-> d]

NextDay(dt) ==
  IF dt.d < DaysInMonth(dt.y, dt.m) THEN Date(dt.y, dt.m, dt.d + 1)
  ELSE IF dt.m < 12 THEN Date(dt.y, dt.m + 1, 1)
  ELSE Date(dt.y + 1, 1, 1)

PrevDay(dt) ==
  IF dt.d > 1 THEN Date(dt.y, dt.m, dt.d - 1)
  ELSE IF dt.m > 1 THEN Date(dt.y, dt.m - 1, DaysInMonth(dt.y, dt.m - 1))
  ELSE Date(dt.y - 1, 12, 31)

\* datetime + timedelta(days=n)
RECURSIVE AddDays(_, _)
AddDays(dt, n) ==
  IF n = 0 THEN dt
  ELSE IF n > 0 THEN AddDays(NextDay(dt), n - 1)
  ELSE AddDays(PrevDay(dt), n + 1)

\* chronological order of two dates
DateLess(a, b) ==
  \/ a.y < b.y
  \/ a.y = b.y /\ a.m < b.m
  \/ a.y = b.y /\ a.m = b.m /\ a.d < b.d

\* strftime("%Y-%m-%d")
StrfDate(dt) == Pad4(dt.y) \o <<"-">> \o Pad2(dt.m) \o <<"-">> \o Pad2(dt.d)

\* positions of "-" in a text
Dashes(s) == {k \in 1..Len(s) : s[k] = "-"}

\* strptime field patterns: %Y is \d\d\d\d, %m is 1[0-2]|0[1-9]|[1-9],
\* %d is 3[01]|[12]\d|0[1-9]|[1-9]
YearField(f) == Len(f) = 4 /\ AllDigits(f)

MonthField(f) ==
  /\ Len(f) \in {1, 2}
  /\ AllDigits(f)
  /\ NumberOf(f) \in 1..12

DayField(f) ==
  /\ Len(f) \in {1, 2}
  /\ AllDigits(f)
  /\ NumberOf(f) \in 1..31

\* parse_date: Some(datetime), or None where the code raises HTTP 400
parse_date(s) ==
  IF Cardinality(Dashes(s)) # 2 THEN None
  ELSE
    LET p1 == CHOOSE k \in Dashes(s) : \A j \in Dashes(s) : k <= j
        p2 == CHOOSE k \in Dashes(s) : \A j \in Dashes(s) : k >= j
        fy == SubSeq(s, 1, p1 - 1)
        fm == SubSeq(s, p1 + 1, p2 - 1)
        fd == SubSeq(s, p2 + 1, Len(s))
    IN IF ~(YearField(fy) /\ MonthField(fm) /\ DayField(fd)) THEN None
       ELSE IF NumberOf(fy) < 1 THEN None
       ELSE IF NumberOf(fd) > DaysInMonth(NumberOf(fy), NumberOf(fm)) THEN None
       ELSE Some(Date(NumberOf(fy), NumberOf(fm), NumberOf(fd)))

\* ------------------------------------------------------------------ relativedelta
Sign(n) == IF n < 0 THEN -1 ELSE 1

\* relativedelta(**{unit: n}) after its constructor's normalisation
relativedelta(unit, n) ==
  IF unit = "years" THEN [years |-> n, months |-> 0, days |-> 0]
  ELSE IF unit = "months" THEN
    IF n * Sign(n) > 11
    THEN [years |-> Sign(n) * ((n * Sign(n)) \div 12),
          months |-> Sign(n) * ((n * Sign(n)) % 12), days |-> 0]
    ELSE [years |-> 0, months |-> n, days |-> 0]
  ELSE IF unit = "weeks" THEN [years |-> 0, months |-> 0, days |-> 7 * n]
  ELSE [years |-> 0, months |-> 0, days |-> n]

\* datetime + relativedelta: shift year and month, clamp the day of month,
\* then add the days
AddDelta(dt, rd) ==
  LET m0 == dt.m + rd.months
      y0 == dt.y + rd.years
      year == IF m0 > 12 THEN y0 + 1 ELSE IF m0 < 1 THEN y0 - 1 ELSE y0
      month == IF m0 > 12 THEN m0 - 12 ELSE IF m0 < 1 THEN m0 + 12 ELSE m0
      day == IF dt.d < DaysInMonth(year, month) THEN dt.d
             ELSE DaysInMonth(year, month)
  IN AddDays(Date(year, month, day), rd.days)

\* datetime - relativedelta
SubDelta(dt, rd) ==
  AddDelta(dt, [years |-> -rd.years, months |-> -rd.months, days |-> -rd.days])

\* ------------------------------------------------------------------ floats
RECURSIVE Gcd(_, _)
Gcd(a, b) == IF b = 0 THEN a ELSE Gcd(b, a % b)

Abs(n) == IF n < 0 THEN -n ELSE n

\* the result of a division by zero (ZeroDivisionError)
ZeroDivisionError == [num |-> 0, den |-> 0]

\* the rational n/d in lowest terms, d # 0
Rat(n, d) ==
  LET g == Gcd(Abs(n), Abs(d))
  IN [num |-> Sign(d) * (n \div g), den |-> Abs(d) \div g]

RAdd(a, b) == Rat(a.num * b.den + b.num * a.den, a.den * b.den)

RSub(a, b) == Rat(a.num * b.den - b.num * a.den, a.den * b.den)

RMul(a, b) == Rat(a.num * b.num, a.den * b.den)

\* a / b, which raises when b is zero
RDiv(a, b) ==
  IF b.num = 0 THEN ZeroDivisionError ELSE Rat(a.num * b.den, a.den * b.num)

RECURSIVE RSum(_)
RSum(xs) == IF xs = <<>> THEN Rat(0, 1) ELSE RAdd(xs[1], RSum(Tail(xs)))

\* round(x, 2) in hundredths, ties to even
Round2(x) ==
  LET n == x.num * 100
      q == n \div x.den
      r == n % x.den
  IN IF 2 * r < x.den THEN q
     ELSE IF 2 * r > x.den THEN q + 1
     ELSE IF q % 2 = 0 THEN q ELSE q + 1

\* statistics.pstdev(xs) squared: the population variance, exact as in the
\* library (which computes on fractions before the square root)
pvariance(xs) ==
  LET n == Rat(Len(xs), 1)
      mean == RDiv(RSum(xs), n)
      sq == [k \in 1..Len(xs) |-> RMul(RSub(xs[k], mean), RSub(xs[k], mean))]
  IN RDiv(RSum(sq), n)

\* ------------------------------------------------------------------ provider
\* every close column the provider may return for one download
CloseColumns == UNION {[1..n -> Prices] : n \in 0..MaxSeriesLen}

\* get_price_series, given the column the download returned: the prices, or
\* the HTTP error raised
get_price_series(close) ==
  IF Len(close) = 0
  THEN [status |-> 404, detail |-> "No price data found", prices |-> <<>>]
  ELSE IF Len(close) < 2
  THEN [status |-> 404, detail |-> "Insufficient data", prices |-> <<>>]
  ELSE [status |-> 200, detail |-> "", prices |-> close]

\* the download's start= and end= arguments
Range(start, end) == [start |-> StrfDate(start), end |-> StrfDate(end)]

\* ------------------------------------------------------------------ handlers' steps
\* the unit check accepting every keyword relativedelta knows
ValidUnit_AnyKeyword(unit) == unit \in Units

\* the duration_unit check of both handlers
ValidUnit(unit) == unit \in {"days", "months", "years"}

\* cycle_end and cycle_start of iteration i of analyze
AnalyzeWindow(end, unit, value, k) ==
  LET cycle_end == SubDelta(end, relativedelta(unit, k * value))
      cycle_start == SubDelta(cycle_end, relativedelta(unit, value))
  IN [start |-> cycle_start, end |-> cycle_end]

\* cycle_end and cycle_start of iteration i of price_series
PriceSeriesWindow(end, unit, value, k) ==
  LET cycle_end == SubDelta(end, relativedelta(unit, k * value))
      cycle_start == SubDelta(cycle_end, relativedelta(unit, value))
  IN [start |-> cycle_start, end |-> cycle_end]

\* earliest_start of price_series
EarliestStart(end, unit, value, cycles) ==
  SubDelta(end, relativedelta(unit, value * cycles))

\* newest_end_price overwritten by every iteration
NewestEndPrice_EveryIteration(cur, k, end_price) == Some(end_price)

\* newest_end_price after iteration k
NewestEndPrice(cur, k, end_price) == IF k = 0 THEN Some(end_price) ELSE cur

\* oldest_start_price after iteration k
OldestStartPrice(cur, k, cycles, start_price) ==
  IF k = cycles - 1 THEN Some(start_price) ELSE cur

\* growth = ((end_price - start_price) / start_price) * 100
Growth(start_price, end_price) ==
  LET q == RDiv(Rat(end_price - start_price, 1), Rat(start_price, 1))
  IN IF q = ZeroDivisionError THEN q ELSE RMul(q, Rat(100, 1))

\* the entry numbered from zero
CycleResult_ZeroBased(k, w, growth) ==
  [cycle |-> k, from |-> StrfDate(w.start), to |-> StrfDate(w.end),
   growth_percent |-> Round2(growth)]

\* the entry analyze appends to results in iteration k
CycleResult(k, w, growth) ==
  [cycle |-> k + 1, from |-> StrfDate(w.start), to |-> StrfDate(w.end),
   growth_percent |-> Round2(growth)]

\* the entry price_series appends to cycle_points in iteration k
CyclePoint(k, w) ==
  [cycle |-> k + 1, start |-> StrfDate(w.start), end |-> StrfDate(w.end)]

\* avg_return = sum(cycle_returns) / len(cycle_returns)
AvgReturn(xs) == RDiv(RSum(xs), Rat(Len(xs), 1))

\* std_dev, as its square
StdDev2(xs) == IF Len(xs) > 1 THEN pvariance(xs) ELSE Rat(0, 1)

\* sharpe: the quotient num / sqrt(std2), or the raised division by zero
SharpeQuotient(num, std2) ==
  IF std2.num = 0
  THEN [raised |-> TRUE, num |-> num, std2 |-> std2]
  ELSE [raised |-> FALSE, num |-> num, std2 |-> std2]

SharpeZero == [raised |-> FALSE, num |-> Rat(0, 1), std2 |-> Rat(1, 1)]

\* sharpe without the std_dev != 0 test
Sharpe_Unguarded(avg_return, risk_free_rate, std2) ==
  SharpeQuotient(RSub(avg_return, Rat(risk_free_rate, 1)), std2)

Sharpe(avg_return, risk_free_rate, std2) ==
  IF std2.num # 0
  THEN SharpeQuotient(RSub(avg_return, Rat(risk_free_rate, 1)), std2)
  ELSE SharpeZero

\* total_years of the CAGR step
TotalYears(unit, value, cycles) ==
  IF unit = "years" THEN Rat(value * cycles, 1)
  ELSE IF unit = "months" THEN Rat(value * cycles, 12)
  ELSE Rat(value * cycles * 100, 36525)

\* the CAGR step under asset_type == "mf": the field is absent, or holds
\* base ** exponent - 1, or round() raises TypeError on the complex power
\* of a negative base to a fractional exponent
Cagr(newest, oldest, total_years) ==
  IF total_years.num > 0 /\ oldest = None
  THEN [raised |-> TRUE, field |-> None]
  ELSE IF total_years.num > 0 /\ oldest[1] > 0
  THEN LET base == Rat(newest[1], oldest[1])
           exponent == RDiv(Rat(1, 1), total_years)
       IN [raised |-> base.num < 0 /\ exponent.den # 1,
           field |-> Some([base |-> base, exponent |-> exponent])]
  ELSE [raised |-> FALSE, field |-> None]

\* ------------------------------------------------------------------ state
VARIABLES
  pc,                  \* where the request is: idle, a handler's step, done
  req,                 \* the query parameters of the request
  end_date,            \* the parsed end_date
  i,                   \* the loop variable of the handler
  results,             \* analyze: the per-cycle entries
  cycle_returns,       \* analyze: the growth values at full precision
  oldest_start_price,  \* analyze
  newest_end_price,    \* analyze
  prices,              \* the prices the last successful get_price_series returned
  cycle_points,        \* price_series: the annotated windows
  fetched,             \* the provider downloads made, in order
  response             \* the HTTP response: status 0 while there is none

vars == <<pc, req, end_date, i, results, cycle_returns, oldest_start_price,
          newest_end_price, prices, cycle_points, fetched, response>>

NoRequest ==
  [handler |-> "", symbol |-> <<>>, duration_value |-> 0, duration_unit |-> "",
   cycles |-> 0, end_date |-> <<>>, asset_type |-> "", risk_free_rate |-> 0]

NoResponse == [status |-> 0, detail |-> "", body |-> None]

HttpError(status, detail) == [status |-> status, detail |-> detail, body |-> None]

\* an exception no handler catches: the framework answers 500
Unhandled(exception) == [status |-> 500, detail |-> exception, body |-> None]

Ok(body) == [status |-> 200, detail |-> "", body |-> Some(body)]

Init ==
  /\ pc = "idle"
  /\ req = NoRequest
  /\ end_date = None
  /\ i = 0
  /\ results = <<>>
  /\ cycle_returns = <<>>
  /\ oldest_start_price = None
  /\ newest_end_price = None
  /\ prices = <<>>
  /\ cycle_points = <<>>
  /\ fetched = <<>>
  /\ response = NoResponse

Requests(handler) ==
  [handler : {handler}, symbol : Symbols, duration_value : DurationValues,
   duration_unit : Units, cycles : CycleCounts, end_date : EndDates,
   asset_type : IF handler = "analyze" THEN AssetTypes ELSE {"stock"},
   risk_free_rate : IF handler = "analyze" THEN RiskFreeRates ELSE {0}]

\* the checks both handlers open with: the unit, then the date
Validate(r, next) ==
  /\ req' = r
  /\ IF ~ValidUnit(r.duration_unit)
     THEN /\ response' = HttpError(400, "Invalid duration_unit")
          /\ pc' = "done"
          /\ end_date' = end_date
     ELSE IF parse_date(r.end_date) = None
     THEN /\ response' = HttpError(400, "Invalid date format. Use YYYY-MM-DD")
          /\ pc' = "done"
          /\ end_date' = end_date
     ELSE /\ response' = response
          /\ pc' = next
          /\ end_date' = parse_date(r.end_date)

\* analyze up to its loop
AnalyzeBegin ==
  /\ pc = "idle"
  /\ \E r \in Requests("analyze") : Validate(r, "analyze_loop")
  /\ UNCHANGED <<i, results, cycle_returns, oldest_start_price,
                 newest_end_price, prices, cycle_points, fetched>>

\* one iteration of the loop of analyze; close is what the provider returns
AnalyzeCycle ==
  /\ pc = "analyze_loop"
  /\ i < req.cycles
  /\ \E close \in CloseColumns :
       LET w == AnalyzeWindow(end_date[1], req.duration_unit,
                              req.duration_value, i)
           got == get_price_series(close)
           start_price == got.prices[1]
           end_price == got.prices[Len(got.prices)]
           growth == Growth(start_price, end_price)
       IN /\ fetched' = Append(fetched, Range(w.start, w.end))
          /\ IF got.status # 200
             THEN /\ response' = HttpError(got.status, got.detail)
                  /\ pc' = "done"
                  /\ UNCHANGED <<i, results, cycle_returns, prices,
                                 oldest_start_price, newest_end_price>>
             ELSE /\ prices' = got.prices
                  /\ newest_end_price' =
                       NewestEndPrice(newest_end_price, i, end_price)
                  /\ oldest_start_price' =
                       OldestStartPrice(oldest_start_price, i, req.cycles,
                                        start_price)
                  /\ IF growth = ZeroDivisionError
                     THEN /\ response' = Unhandled("ZeroDivisionError")
                          /\ pc' = "done"
                          /\ UNCHANGED <<i, results, cycle_returns>>
                     ELSE /\ cycle_returns' = Append(cycle_returns, growth)
                          /\ results' = Append(results,
                                                CycleResult(i, w, growth))
                          /\ i' = i + 1
                          /\ UNCHANGED <<pc, response>>
  /\ UNCHANGED <<req, end_date, cycle_points>>

\* analyze after its loop: the metrics, the CAGR step and the return
AnalyzeMetrics ==
  /\ pc = "analyze_loop"
  /\ i >= req.cycles
  /\ LET avg_return == AvgReturn(cycle_returns)
         std2 == StdDev2(cycle_returns)
         sharpe == Sharpe(avg_return, req.risk_free_rate, std2)
         cagr == IF req.asset_type = "mf"
                 THEN Cagr(newest_end_price, oldest_start_price,
                           TotalYears(req.duration_unit, req.duration_value,
                                      req.cycles))
                 ELSE [raised |-> FALSE, field |-> None]
     IN response' =
          IF avg_return = ZeroDivisionError THEN Unhandled("ZeroDivisionError")
          ELSE IF sharpe.raised THEN Unhandled("ZeroDivisionError")
          ELSE IF cagr.raised THEN Unhandled("TypeError")
          ELSE Ok([symbol |-> upper(req.symbol),
                   average_growth_percent |-> Round2(avg_return),
                   std_dev2 |-> std2,
                   sharpe_ratio |-> [num |-> sharpe.num, std2 |-> sharpe.std2],
                   risk_free_rate_used |-> req.risk_free_rate,
                   results |-> results,
                   cagr_percent |-> cagr.field])
  /\ pc' = "done"
  /\ UNCHANGED <<req, end_date, i, results, cycle_returns, oldest_start_price,
                 newest_end_price, prices, cycle_points, fetched>>

\* price_series up to its download
PriceSeriesBegin ==
  /\ pc = "idle"
  /\ \E r \in Requests("price_series") : Validate(r, "price_series_fetch")
  /\ UNCHANGED <<i, results, cycle_returns, oldest_start_price,
                 newest_end_price, prices, cycle_points, fetched>>

\* the one download of price_series
PriceSeriesFetch ==
  /\ pc = "price_series_fetch"
  /\ \E close \in CloseColumns :
       LET earliest_start == EarliestStart(end_date[1], req.duration_unit,
                                           req.duration_value, req.cycles)
           got == get_price_series(close)
       IN /\ fetched' = Append(fetched, Range(earliest_start, end_date[1]))
          /\ IF got.status # 200
             THEN /\ response' = HttpError(got.status, got.detail)
                  /\ pc' = "done"
                  /\ prices' = prices
             ELSE /\ prices' = got.prices
                  /\ pc' = "price_series_loop"
                  /\ response' = response
  /\ UNCHANGED <<req, end_date, i, results, cycle_returns, oldest_start_price,
                 newest_end_price, cycle_points>>

\* one iteration of the loop of price_series
PriceSeriesCycle ==
  /\ pc = "price_series_loop"
  /\ i < req.cycles
  /\ LET w == PriceSeriesWindow(end_date[1], req.duration_unit,
                                req.duration_value, i)
     IN cycle_points' = Append(cycle_points, CyclePoint(i, w))
  /\ i' = i + 1
  /\ UNCHANGED <<pc, req, end_date, results, cycle_returns, oldest_start_price,
                 newest_end_price, prices, fetched, response>>

\* the return of price_series
PriceSeriesReturn ==
  /\ pc = "price_series_loop"
  /\ i >= req.cycles
  /\ response' = Ok([symbol |-> upper(req.symbol), prices |-> prices,
                     cycles |-> cycle_points])
  /\ pc' = "done"
  /\ UNCHANGED <<req, end_date, i, results, cycle_returns, oldest_start_price,
                 newest_end_price, prices, cycle_points, fetched>>

Next ==
  \/ AnalyzeBegin
  \/ AnalyzeCycle
  \/ AnalyzeMetrics
  \/ PriceSeriesBegin
  \/ PriceSeriesFetch
  \/ PriceSeriesCycle
  \/ PriceSeriesReturn

Spec == Init /\ [][Next]_vars

\* ------------------------------------------------------------------ properties
\* a formatted date is before another
TextDateLess(a, b) == DateLess(parse_date(a)[1], parse_date(b)[1])

AllEqual(xs) == \A j, k \in 1..Len(xs) : xs[j] = xs[k]

ClientError == 400..499

\* analyze has left its loop and run the metrics step
MetricsDone == req.handler = "analyze" /\ pc = "done" /\ i >= req.cycles

\* C1: an analyze request that computes zero cycles ends in an explicit
\* client error, never in an unhandled exception or a summary.
C1_ZeroCyclesEndInClientError ==
  (MetricsDone /\ cycle_returns = <<>>) => response.status \in ClientError

\* C2: with duration_value > 0 the windows of analyze and of price_series are
\* contiguous: the start of cycle k is the end of cycle k+1.
C2_WindowsContiguous ==
  /\ (req.handler = "analyze" /\ req.duration_value > 0) =>
       \A k \in 1..(Len(results) - 1) : results[k].from = results[k + 1].to
  /\ (req.handler = "price_series" /\ req.duration_value > 0) =>
       \A k \in 1..(Len(cycle_points) - 1) :
          cycle_points[k].start = cycle_points[k + 1].end

\* C3: a request of either handler whose duration_unit is not days, months or
\* years is answered 400 "Invalid duration_unit" and makes no provider fetch,
\* whatever its other parameters are.
C3_InvalidUnitRejectedBeforeFetch ==
  (req.handler # "" /\ req.duration_unit \notin {"days", "months", "years"}) =>
    /\ fetched = <<>>
    /\ pc = "done"
    /\ response = HttpError(400, "Invalid duration_unit")

C3_Witness ==
  /\ req.handler = "price_series"
  /\ req.duration_unit = "weeks"
  /\ parse_date(req.end_date) = None
  /\ response.status = 400

\* C4: when the series fetched for a cycle of analyze starts with price 0 the
\* request ends in an explicit client error, not in an unhandled exception.
C4_ZeroStartPriceIsClientError ==
  (req.handler = "analyze" /\ pc = "done" /\ prices # <<>> /\ prices[1] = 0) =>
    response.status \in ClientError

\* C5: once all cycles are fetched the CAGR step never raises: the summary is
\* returned, with cagr_percent exactly when asset_type is mf, total_years > 0
\* and oldest_start_price > 0.
C5_CagrStepNeverRaises ==
  (MetricsDone /\ req.cycles >= 1 /\ Len(cycle_returns) = req.cycles) =>
    /\ response.status = 200
    /\ (response.body[1].cagr_percent # None) <=>
         /\ req.asset_type = "mf"
         /\ req.duration_value * req.cycles > 0
         /\ oldest_start_price[1] > 0

\* C6: oldest_start_price is the first price of the series of the last
\* iteration (the highest-indexed cycle) and newest_end_price the last price
\* of the series of the first iteration (cycle 1); no other iteration
\* changes either, and a summary is returned with both of them set so.
C6_SummaryAnchors ==
  (req.handler = "analyze" /\ response.status = 200) =>
    /\ req.cycles >= 1
    /\ oldest_start_price = Some(prices[1])
    /\ newest_end_price # None

C6_IterationAnchors ==
  (req.handler = "analyze" /\ pc = "analyze_loop" /\ i' = i + 1) =>
    /\ newest_end_price' = IF i = 0 THEN Some(prices'[Len(prices')])
                           ELSE newest_end_price
    /\ oldest_start_price' = IF i = req.cycles - 1 THEN Some(prices'[1])
                             ELSE oldest_start_price

C6_AnchorPrices == [](C6_SummaryAnchors) /\ [][C6_IterationAnchors]_vars

C6_Witness ==
  /\ req.handler = "analyze"
  /\ response.status = 200
  /\ req.cycles >= 2
  /\ newest_end_price # Some(prices[Len(prices)])
  /\ oldest_start_price # newest_end_price

\* C7: with duration_value > 0 and cycles >= 1 the range price_series fetches
\* starts at the start of its highest-indexed annotated window, and its
\* annotated windows are the windows analyze computes for the same inputs.
C7_FetchSpansAnnotatedWindows ==
  (/\ req.handler = "price_series"
   /\ response.status = 200
   /\ req.duration_value > 0
   /\ req.cycles >= 1) =>
    /\ fetched[1].start = cycle_points[req.cycles].start
    /\ \A k \in 1..req.cycles :
         LET w == AnalyzeWindow(end_date[1], req.duration_unit,
                                req.duration_value, k - 1)
         IN /\ cycle_points[k].start = StrfDate(w.start)
            /\ cycle_points[k].end = StrfDate(w.end)

\* C8: when all growth values of an analyze run are equal (standard deviation
\* 0, as with a single cycle) no division by zero is raised and the ratio of
\* the summary is 0.0, whatever avg_return and risk_free_rate are.
C8_ZeroStdDevGivesZeroRatio ==
  (MetricsDone /\ Len(cycle_returns) >= 1 /\ AllEqual(cycle_returns)) =>
    /\ response # Unhandled("ZeroDivisionError")
    /\ response.status = 200 =>
         /\ response.body[1].std_dev2 = Rat(0, 1)
         /\ response.body[1].sharpe_ratio.num = Rat(0, 1)

C8_Witness ==
  /\ MetricsDone
  /\ response.status = 200
  /\ Len(cycle_returns) >= 2
  /\ AllEqual(cycle_returns)
  /\ response.body[1].average_growth_percent # 100 * req.risk_free_rate

\* C9: every cycle window analyze hands to the provider or lists, and every
\* window price_series annotates, has its start date before its end date.
C9_WindowsStartBeforeEnd ==
  /\ req.handler = "analyze" =>
       \A k \in 1..Len(fetched) : TextDateLess(fetched[k].start, fetched[k].end)
  /\ \A k \in 1..Len(results) : TextDateLess(results[k].from, results[k].to)
  /\ \A k \in 1..Len(cycle_points) :
       TextDateLess(cycle_points[k].start, cycle_points[k].end)

\* C10: analyze fetches once per cycle in index order 1, 2, ...; a failed
\* fetch is the last one and ends the request without a summary; a summary
\* comes after exactly `cycles` fetches and lists results 1..cycles in order.
C10_FetchLog ==
  req.handler = "analyze" =>
    /\ Len(results) = i /\ Len(cycle_returns) = i
    /\ \A k \in 1..Len(results) :
         /\ results[k].cycle = k
         /\ fetched[k] = [start |-> results[k].from, end |-> results[k].to]
    /\ Len(fetched) \in {i, i + 1}
    /\ Len(fetched) = i + 1 => (pc = "done" /\ response.status \in {404, 500})
    /\ response.status = 404 => (pc = "done" /\ Len(fetched) = i + 1)
    /\ response.status = 200 =>
         /\ Len(fetched) = req.cycles
         /\ response.body[1].results = results
         /\ Len(results) = req.cycles

C10_FetchStep ==
  /\ pc = "done" => UNCHANGED fetched
  /\ \/ fetched' = fetched
     \/ /\ Len(fetched') = Len(fetched) + 1
        /\ SubSeq(fetched', 1, Len(fetched)) = fetched
        /\ req.handler = "analyze" => Len(fetched') = i + 1

C10_SequentialFetches == [](C10_FetchLog) /\ [][C10_FetchStep]_vars

C10_Witness ==
  /\ req.handler = "analyze"
  /\ response.status = 200
  /\ req.cycles >= 2
  /\ Len(fetched) = req.cycles

====
